---- MODULE Spec2Model ----
(***************************************************************************)
(* A model of the cose crate: the CBOR serializer of src/serialize.rs and  *)
(* the NSS-backed signature check of src/verify.rs.                        *)
(*                                                                         *)
(* A 64-bit integer is four 16-bit limbs <<l1, l2, l3, l4>>, l1 the most   *)
(* significant, because TLC's integers are 32 bits wide.  An i64 is the    *)
(* same four limbs read as two's complement.                               *)
(***************************************************************************)
EXTENDS Integers, Sequences, FiniteSets, TLC

VARIABLES pc, input, bytes, ret,
          prim,
          vpc, vin, spki_handle, pubkey, status, guards, ffi, vresult

vars == <<pc, input, bytes, ret, prim,
          vpc, vin, spki_handle, pubkey, status, guards, ffi, vresult>>

serVars == <<pc, input, bytes, ret>>
verVars == <<vpc, vin, spki_handle, pubkey, status, guards, ffi, vresult>>

----------------------------------------------------------------------------
(* Bounds of the model.                                                    *)

MaxStrLen == 2
MaxArrLen == 2
MaxMapLen == 2
NumThreads == 2

----------------------------------------------------------------------------
(* 64-bit words as limbs.                                                  *)

\* one limb holds 16 bits; Half is a limb's top bit
Limb == 256 * 256
Half == 128 * 256

U64(a, b, c, d) == <<a, b, c, d>>

\* usize -> u64 of a length the model can hold in one TLC integer
LenAsU64(n) == <<0, 0, n \div Limb, n % Limb>>

\* a <= b on u64
U64Le(a, b) ==
    \/ a = b
    \/ \E i \in 1..4 : a[i] < b[i] /\ \A j \in 1..(i - 1) : a[j] = b[j]

\* a < b on i64 (two's complement: the sign bit is the top bit of limb 1)
I64Lt(a, b) ==
    LET fa == <<(a[1] + Half) % Limb, a[2], a[3], a[4]>>
        fb == <<(b[1] + Half) % Limb, b[2], b[3], b[4]>>
    IN  fa # fb /\ U64Le(fa, fb)

I64Zero == <<0, 0, 0, 0>>
I64MinusOne == <<65535, 65535, 65535, 65535>>

\* the borrow out of limb i (1 = most significant) of a - b
RECURSIVE Borrow(_, _, _)
Borrow(a, b, i) ==
    IF i > 4 THEN 0
    ELSE IF a[i] - b[i] - Borrow(a, b, i + 1) < 0 THEN 1 ELSE 0

\* a - b, wrapping to 64 bits
WrappingSub(a, b) ==
    LET d(i) == (a[i] - b[i] - Borrow(a, b, i + 1) + Limb) % Limb
    IN  <<d(1), d(2), d(3), d(4)>>

\* a - b overflows i64: the operands differ in sign and the result's sign is not a's
I64SubOverflows(a, b) ==
    LET sa == a[1] >= Half
        sb == b[1] >= Half
        sr == WrappingSub(a, b)[1] >= Half
    IN  sa # sb /\ sr # sa

\* value >> n, for n a multiple of 8
ShiftRight(value, n) ==
    LET q == n \div 16
        r == n % 16
        limb(i) == IF i - q >= 1 THEN value[i - q] ELSE 0
        lo == IF r = 8 THEN 256 ELSE 1
        hi == IF r = 8 THEN 256 ELSE 0
        s(i) == (limb(i - 1) % lo) * hi + (limb(i) \div lo)
    IN  <<s(1), s(2), s(3), s(4)>>

\* value & 255
And255(value) == <<0, 0, 0, value[4] % 256>>

\* value as u8
AsU8(value) == value[4] % 256

\* a | b on u8
RECURSIVE BitOr(_, _)
BitOr(a, b) ==
    IF a = 0 THEN b
    ELSE IF b = 0 THEN a
    ELSE (IF a % 2 = 1 \/ b % 2 = 1 THEN 1 ELSE 0) + 2 * BitOr(a \div 2, b \div 2)

\* tag << 5 on u8
ShiftLeft5(tag) == (tag * 32) % 256

----------------------------------------------------------------------------
(* The state a call works on: the Vec<u8> it appends to, whether an        *)
(* assert! has fired, and a record of what was passed down (the tags given *)
(* to common_encode_unsigned, the values given to encode_negative, whether *)
(* an i64 subtraction overflowed).                                         *)

NewVec == [output |-> <<>>, panicked |-> FALSE, tags |-> {}, negs |-> {},
           overflow |-> FALSE]

push(o, byte) == [o EXCEPT !.output = Append(@, byte)]

extend(o, bs) == [o EXCEPT !.output = @ \o bs]

\* what the caller's state becomes once a nested serialize() has returned r,
\* or has unwound through the caller
absorb(o, r) ==
    [output   |-> IF r.panicked THEN o.output ELSE o.output \o r.output,
     panicked |-> r.panicked,
     tags     |-> o.tags \cup r.tags,
     negs     |-> o.negs \cup r.negs,
     overflow |-> o.overflow \/ r.overflow]

\* the first arm of the match taken one value too far
V24 == U64(0, 0, 0, 24)

V23 == U64(0, 0, 0, 23)
V255 == U64(0, 0, 0, 255)
V65535 == U64(0, 0, 0, 65535)
V4294967295 == U64(0, 0, 65535, 65535)

common_encode_unsigned(output, tag, value) ==
    LET o == [output EXCEPT !.tags = @ \cup {tag}]
        shifted_tag == ShiftLeft5(tag)
    IN  IF ~(tag < 8) THEN [o EXCEPT !.panicked = TRUE]
        ELSE IF U64Le(value, V23) THEN
            push(o, BitOr(shifted_tag, AsU8(value)))
        ELSE IF U64Le(value, V255) THEN
            push(push(o, BitOr(shifted_tag, 24)), AsU8(value))
        ELSE IF U64Le(value, V65535) THEN
            push(push(push(o, BitOr(shifted_tag, 25)),
                 AsU8(ShiftRight(value, 8))),
                 AsU8(And255(value)))
        ELSE IF U64Le(value, V4294967295) THEN
            push(push(push(push(push(o, BitOr(shifted_tag, 26)),
                 AsU8(ShiftRight(value, 24))),
                 AsU8(And255(ShiftRight(value, 16)))),
                 AsU8(And255(ShiftRight(value, 8)))),
                 AsU8(And255(value)))
        ELSE
            push(push(push(push(push(push(push(push(push(o, BitOr(shifted_tag, 27)),
                 AsU8(ShiftRight(value, 56))),
                 AsU8(And255(ShiftRight(value, 48)))),
                 AsU8(And255(ShiftRight(value, 40)))),
                 AsU8(And255(ShiftRight(value, 32)))),
                 AsU8(And255(ShiftRight(value, 24)))),
                 AsU8(And255(ShiftRight(value, 16)))),
                 AsU8(And255(ShiftRight(value, 8)))),
                 AsU8(And255(value)))

encode_unsigned(output, unsigned) == common_encode_unsigned(output, 0, unsigned)

\* the magnitude taken as -negative, not -1 - negative
encode_negative_off_by_one(output, negative) ==
    LET o == [output EXCEPT !.negs = @ \cup {negative}]
    IN  IF ~I64Lt(negative, I64Zero) THEN [o EXCEPT !.panicked = TRUE]
        ELSE common_encode_unsigned(
                 [o EXCEPT !.overflow = @ \/ I64SubOverflows(I64Zero, negative)],
                 1, WrappingSub(I64Zero, negative))

\* the assert left out
encode_negative_unchecked(output, negative) ==
    common_encode_unsigned(
        [output EXCEPT !.negs = @ \cup {negative},
                       !.overflow = @ \/ I64SubOverflows(I64MinusOne, negative)],
        1, WrappingSub(I64MinusOne, negative))

encode_negative(output, negative) ==
    LET o == [output EXCEPT !.negs = @ \cup {negative}]
    IN  IF ~I64Lt(negative, I64Zero) THEN [o EXCEPT !.panicked = TRUE]
        ELSE common_encode_unsigned(
                 [o EXCEPT !.overflow = @ \/ I64SubOverflows(I64MinusOne, negative)],
                 1, WrappingSub(I64MinusOne, negative))

encode_bstr(output, bstr) ==
    LET o == common_encode_unsigned(output, 2, LenAsU64(Len(bstr)))
    IN  IF o.panicked THEN o ELSE extend(o, bstr)

\* the UTF-8 bytes of one char (a Unicode scalar value)
Utf8OfChar(c) ==
    IF c < 128 THEN <<c>>
    ELSE IF c < 2048 THEN <<192 + (c \div 64), 128 + (c % 64)>>
    ELSE IF c < 65536 THEN
        <<224 + (c \div 4096), 128 + ((c \div 64) % 64), 128 + (c % 64)>>
    ELSE <<240 + (c \div 262144), 128 + ((c \div 4096) % 64),
           128 + ((c \div 64) % 64), 128 + (c % 64)>>

\* String::as_bytes: a String is held here as its sequence of chars, and its
\* bytes are the UTF-8 of each char in turn (put together half by half)
RECURSIVE as_bytes(_)
as_bytes(tstr) ==
    IF tstr = <<>> THEN <<>>
    ELSE IF Len(tstr) = 1 THEN Utf8OfChar(tstr[1])
    ELSE LET half == Len(tstr) \div 2
         IN  as_bytes(SubSeq(tstr, 1, half)) \o as_bytes(SubSeq(tstr, half + 1, Len(tstr)))

\* the length taken as the number of chars
encode_tstr_chars(output, tstr) ==
    LET utf8_bytes == as_bytes(tstr)
        o == common_encode_unsigned(output, 3, LenAsU64(Len(tstr)))
    IN  IF o.panicked THEN o ELSE extend(o, utf8_bytes)

encode_tstr(output, tstr) ==
    LET utf8_bytes == as_bytes(tstr)
        o == common_encode_unsigned(output, 3, LenAsU64(Len(utf8_bytes)))
    IN  IF o.panicked THEN o ELSE extend(o, utf8_bytes)

----------------------------------------------------------------------------
(* CborType.  A value is <<variant, payload>>: the payload of UInt and     *)
(* NInt is a 64-bit word, of BStr a sequence of bytes, of TStr a sequence  *)
(* of chars, of Arr a sequence of values, and of Map the <<key, value>>    *)
(* pairs of a BTreeMap<i64, CborType>, unique by key, listed in the order  *)
(* they were inserted.                                                     *)

UInt(u) == <<"UInt", u>>
NInt(n) == <<"NInt", n>>
BStr(b) == <<"BStr", b>>
TStr(s) == <<"TStr", s>>
Arr(a) == <<"Arr", a>>
Map(m) == <<"Map", m>>

\* *key as u64: the same 64 bits
I64AsU64(key) == key

\* the entry with the least key, by Ord for i64
MinEntry(map) ==
    CHOOSE i \in 1..Len(map) : \A j \in 1..Len(map) : ~I64Lt(map[j][1], map[i][1])

Without(seq, i) == SubSeq(seq, 1, i - 1) \o SubSeq(seq, i + 1, Len(seq))

\* a map that iterates in the order of insertion
InsertionOrder(map) == map

\* the order in which iterating a BTreeMap yields its entries: ascending by key
RECURSIVE BTreeIter(_)
BTreeIter(map) ==
    IF map = <<>> THEN <<>>
    ELSE LET i == MinEntry(map) IN <<map[i]>> \o BTreeIter(Without(map, i))

RECURSIVE serialize(_), encode_array_from(_, _, _), encode_map_from(_, _, _)

\* for element in array { ... }, from the i-th element on
encode_array_from(output, array, i) ==
    IF output.panicked \/ i > Len(array) THEN output
    ELSE LET element_encoded == serialize(array[i])
         IN  encode_array_from(absorb(output, element_encoded), array, i + 1)

\* the elements with no count in front of them
encode_array_uncounted(output, array) == encode_array_from(output, array, 1)

Reversed(seq) == [i \in 1..Len(seq) |-> seq[Len(seq) + 1 - i]]

\* the elements taken last to first
encode_array_reversed(output, array) ==
    encode_array_from(common_encode_unsigned(output, 4, LenAsU64(Len(array))),
                      Reversed(array), 1)

encode_array(output, array) ==
    encode_array_from(common_encode_unsigned(output, 4, LenAsU64(Len(array))),
                      array, 1)

\* the key 0 sent down the negative path: *key <= 0
encode_map_from_zero_negative(output, entries, i) ==
    IF output.panicked \/ i > Len(entries) THEN output
    ELSE LET key == entries[i][1]
             value == entries[i][2]
             key_encoded == IF I64Lt(key, I64Zero) \/ key = I64Zero
                            THEN serialize(NInt(key))
                            ELSE serialize(UInt(I64AsU64(key)))
             with_key == absorb(output, key_encoded)
             value_encoded == serialize(value)
         IN  IF with_key.panicked THEN with_key
             ELSE encode_map_from(absorb(with_key, value_encoded), entries, i + 1)

\* for (key, value) in map { ... }, from the i-th entry of the iteration on
encode_map_from(output, entries, i) ==
    IF output.panicked \/ i > Len(entries) THEN output
    ELSE LET key == entries[i][1]
             value == entries[i][2]
             key_encoded == IF I64Lt(key, I64Zero)
                            THEN serialize(NInt(key))
                            ELSE serialize(UInt(I64AsU64(key)))
             with_key == absorb(output, key_encoded)
             value_encoded == serialize(value)
         IN  IF with_key.panicked THEN with_key
             ELSE encode_map_from(absorb(with_key, value_encoded), entries, i + 1)

encode_map(output, map) ==
    encode_map_from(common_encode_unsigned(output, 5, LenAsU64(Len(map))),
                    BTreeIter(map), 1)

\* the match of CborType::serialize, on the Vec the call has allocated
dispatch(output, self) ==
    CASE self[1] = "UInt" -> encode_unsigned(output, self[2])
      [] self[1] = "NInt" -> encode_negative(output, self[2])
      [] self[1] = "BStr" -> encode_bstr(output, self[2])
      [] self[1] = "TStr" -> encode_tstr(output, self[2])
      [] self[1] = "Arr"  -> encode_array(output, self[2])
      [] self[1] = "Map"  -> encode_map(output, self[2])

serialize(self) == dispatch(NewVec, self)

----------------------------------------------------------------------------
(* The values the model serializes.                                        *)

SeqsUpTo(S, n) == UNION {[1..k -> S] : k \in 0..n}

\* 0, 23, 24, 255, 256, 65535, 65536, 1000000, 2^32 - 1, 2^32, 10^12, 2^63, 2^64 - 1
UIntSamples ==
    {U64(0, 0, 0, 0), U64(0, 0, 0, 23), U64(0, 0, 0, 24), U64(0, 0, 0, 255),
     U64(0, 0, 0, 256), U64(0, 0, 0, 65535), U64(0, 0, 1, 0), U64(0, 0, 15, 16960),
     U64(0, 0, 65535, 65535), U64(0, 1, 0, 0), U64(0, 232, 54437, 4096),
     U64(32768, 0, 0, 0), U64(65535, 65535, 65535, 65535)}

\* -1, -10, -24, -25, -100, -256, -257, -1000, -65536, -65537, -1000000,
\* -2^32, -2^32 - 1, -(2^62 - 1), -2^63
NegativeSamples ==
    {U64(65535, 65535, 65535, 65535), U64(65535, 65535, 65535, 65526),
     U64(65535, 65535, 65535, 65512), U64(65535, 65535, 65535, 65511),
     U64(65535, 65535, 65535, 65436), U64(65535, 65535, 65535, 65280),
     U64(65535, 65535, 65535, 65279), U64(65535, 65535, 65535, 64536),
     U64(65535, 65535, 65535, 0), U64(65535, 65535, 65534, 65535),
     U64(65535, 65535, 65520, 48576), U64(65535, 65535, 0, 0),
     U64(65535, 65534, 65535, 65535), U64(49152, 0, 0, 1), U64(32768, 0, 0, 0)}

\* 0, 1, 24, 2^63 - 1: what NInt's i64 can hold but encode_negative rejects
NonNegativeSamples ==
    {U64(0, 0, 0, 0), U64(0, 0, 0, 1), U64(0, 0, 0, 24),
     U64(32767, 65535, 65535, 65535)}

ByteSamples == {0, 1, 175, 255}

\* 'a', u-umlaut, a CJK char and a char outside the basic plane: 1 to 4 bytes of UTF-8
CharSamples == {97, 252, 27700, 66897}

Repeat(x, n) == [i \in 1..n |-> x]

BStrSamples ==
    SeqsUpTo(ByteSamples, MaxStrLen)
        \cup {<<1, 2, 3, 4>>, Repeat(175, 23), Repeat(175, 24), Repeat(175, 25),
              Repeat(175, 255), Repeat(175, 256)}

TStrSamples ==
    SeqsUpTo(CharSamples, MaxStrLen)
        \cup {<<73, 69, 84, 70>>, <<34, 92>>, Repeat(27700, 12), Repeat(97, 24),
              Repeat(252, 128)}

Leaves ==
    {UInt(u) : u \in UIntSamples}
        \cup {NInt(n) : n \in NegativeSamples \cup NonNegativeSamples}
        \cup {BStr(b) : b \in BStrSamples}
        \cup {TStr(t) : t \in TStrSamples}

\* what the flat containers hold
Elements ==
    {UInt(U64(0, 0, 0, 1)), UInt(U64(0, 1, 0, 0)), NInt(U64(65535, 65535, 65535, 65535)),
     NInt(U64(65535, 65535, 65535, 64536)), NInt(U64(0, 0, 0, 0)), BStr(<<1>>),
     TStr(<<27700>>)}

\* -2^63, -25, -1, 0, 24, 2^63 - 1
KeySamples ==
    {U64(32768, 0, 0, 0), U64(65535, 65535, 65535, 65511),
     U64(65535, 65535, 65535, 65535), U64(0, 0, 0, 0), U64(0, 0, 0, 24),
     U64(32767, 65535, 65535, 65535)}

MapValues ==
    {UInt(U64(0, 0, 0, 10)), NInt(U64(65535, 65535, 65535, 65535)),
     NInt(U64(0, 0, 0, 0))}

\* the entries of the maps: up to n pairs, in any order of insertion, no key twice
Entries(keys, values, n) ==
    {m \in SeqsUpTo(keys \X values, n) :
        \A i, j \in 1..Len(m) : i # j => m[i][1] # m[j][1]}

\* the arrays of 1..n as unsigned integers, as test_arr builds them
Counting(n) == [i \in 1..n |-> UInt(U64(0, 0, 0, i))]

FlatArrays ==
    {Arr(a) : a \in SeqsUpTo(Elements, MaxArrLen)}
        \cup {Arr(Counting(23)), Arr(Counting(24)), Arr(Counting(25))}

FlatMaps ==
    {Map(m) : m \in Entries(KeySamples, MapValues, MaxMapLen)}
        \cup {Map([i \in 1..25 |-> <<U64(0, 0, 0, 26 - i), UInt(U64(0, 0, 0, i))>>])}

\* what the nested containers hold
NestedElements ==
    {UInt(U64(0, 0, 0, 1)), NInt(U64(0, 0, 0, 0)),
     Arr(<<>>), Arr(<<UInt(U64(0, 0, 0, 2)), UInt(U64(0, 0, 0, 3))>>),
     Arr(<<NInt(U64(0, 0, 0, 1))>>), Map(<<>>),
     Map(<<<<U64(0, 0, 0, 20), UInt(U64(0, 0, 0, 10))>>,
           <<U64(65535, 65535, 65535, 65526), BStr(<<1>>)>>>>),
     Map(<<<<U64(0, 0, 0, 1), NInt(U64(0, 0, 0, 0))>>>>)}

NestedKeys == {U64(65535, 65535, 65535, 65535), U64(0, 0, 0, 0), U64(0, 0, 0, 255)}

NestedArrays == {Arr(a) : a \in SeqsUpTo(NestedElements, MaxArrLen)}

NestedMaps == {Map(m) : m \in Entries(NestedKeys, NestedElements, MaxMapLen)}

Deep ==
    {Arr(<<Arr(<<Arr(<<NInt(U64(0, 0, 0, 0))>>)>>)>>),
     Arr(<<Map(<<<<U64(0, 0, 0, 1), Arr(<<TStr(<<252>>)>>)>>>>)>>)}

\* the maps of test_map, each listed as it is inserted: {20: 10, 10: 20, 15: 15},
\* {-4: 10, -1: 20, -5: 15, -6: 10} and {0: 10, -10: 20, 15: 15}; then maps
\* of keys that take two bytes each, {255: 1, 24: 2, 100: 3} and
\* {-257: 1, -25: 2}, and maps of keys of several lengths,
\* {2^32: 1, 65536: 2, 24: 3, 0: 4} and {-1: 1, -25: 2, -257: 3}
TestMaps ==
    {Map(<<<<U64(0, 0, 0, 20), UInt(U64(0, 0, 0, 10))>>,
           <<U64(0, 0, 0, 10), UInt(U64(0, 0, 0, 20))>>,
           <<U64(0, 0, 0, 15), UInt(U64(0, 0, 0, 15))>>>>),
     Map(<<<<U64(65535, 65535, 65535, 65532), UInt(U64(0, 0, 0, 10))>>,
           <<U64(65535, 65535, 65535, 65535), UInt(U64(0, 0, 0, 20))>>,
           <<U64(65535, 65535, 65535, 65531), UInt(U64(0, 0, 0, 15))>>,
           <<U64(65535, 65535, 65535, 65530), UInt(U64(0, 0, 0, 10))>>>>),
     Map(<<<<U64(0, 0, 0, 0), UInt(U64(0, 0, 0, 10))>>,
           <<U64(65535, 65535, 65535, 65526), UInt(U64(0, 0, 0, 20))>>,
           <<U64(0, 0, 0, 15), UInt(U64(0, 0, 0, 15))>>>>),
     Map(<<<<U64(0, 0, 0, 255), UInt(U64(0, 0, 0, 1))>>,
           <<U64(0, 0, 0, 24), UInt(U64(0, 0, 0, 2))>>,
           <<U64(0, 0, 0, 100), UInt(U64(0, 0, 0, 3))>>>>),
     Map(<<<<U64(65535, 65535, 65535, 65279), UInt(U64(0, 0, 0, 1))>>,
           <<U64(65535, 65535, 65535, 65511), UInt(U64(0, 0, 0, 2))>>>>),
     Map(<<<<U64(0, 1, 0, 0), UInt(U64(0, 0, 0, 1))>>,
           <<U64(0, 0, 1, 0), UInt(U64(0, 0, 0, 2))>>,
           <<U64(0, 0, 0, 24), UInt(U64(0, 0, 0, 3))>>,
           <<U64(0, 0, 0, 0), UInt(U64(0, 0, 0, 4))>>>>),
     Map(<<<<U64(65535, 65535, 65535, 65535), UInt(U64(0, 0, 0, 1))>>,
           <<U64(65535, 65535, 65535, 65511), UInt(U64(0, 0, 0, 2))>>,
           <<U64(65535, 65535, 65535, 65279), UInt(U64(0, 0, 0, 3))>>>>)}

Trees ==
    Leaves \cup FlatArrays \cup FlatMaps \cup TestMaps \cup NestedArrays \cup NestedMaps
        \cup Deep

\* what the threads of the concurrent specification serialize
ConcurrentTrees ==
    {UInt(U64(0, 0, 0, 24)), NInt(U64(65535, 65535, 65535, 64536)),
     NInt(U64(0, 0, 0, 0)), TStr(<<27700>>),
     Arr(<<UInt(U64(0, 0, 0, 1)), BStr(<<1>>)>>),
     Map(<<<<U64(0, 0, 0, 20), UInt(U64(0, 0, 0, 10))>>,
           <<U64(65535, 65535, 65535, 65526), BStr(<<1>>)>>>>)}

\* what the two callers of the pair specification serialize: values that are
\* close to one another, by variant (24 and -25, a text and the bytes of its
\* UTF-8), by content (strings and arrays that extend or reorder one another,
\* a string holding the encoding of another value), by nesting (an array of
\* arrays against a longer array) and by the order of insertion into a map;
\* and NInt(0), which no call returns from
PairTrees ==
    LET u(n) == UInt(U64(0, 0, 0, n))
        neg(n) == NInt(U64(65535, 65535, 65535, 65536 - n))
        k(n) == U64(0, 0, 0, n)
        minus(n) == U64(65535, 65535, 65535, 65536 - n)
    IN  {u(0), u(1), u(23), u(24), u(255), u(256), UInt(U64(0, 0, 1, 0)),
         neg(1), neg(2), neg(24), neg(25), neg(256), neg(257), NInt(U64(0, 0, 0, 0)),
         BStr(<<>>), BStr(<<0>>), BStr(<<1>>), BStr(<<24>>), BStr(<<64>>), BStr(<<97>>),
         BStr(<<1, 2>>), BStr(<<2, 1>>), BStr(<<195, 188>>), BStr(<<24, 24>>),
         TStr(<<>>), TStr(<<97>>), TStr(<<97, 97>>), TStr(<<252>>), TStr(<<1, 2>>),
         Arr(<<>>), Arr(<<u(1)>>), Arr(<<u(1), u(2)>>), Arr(<<u(2), u(1)>>),
         Arr(<<u(24)>>), Arr(<<neg(1)>>), Arr(<<BStr(<<1>>)>>),
         Arr(<<Arr(<<>>)>>), Arr(<<Arr(<<>>), Arr(<<>>)>>), Arr(<<Arr(<<Arr(<<>>)>>)>>),
         Arr(<<Arr(<<u(1)>>), u(2)>>), Arr(<<Arr(<<u(1), u(2)>>)>>),
         Arr(<<u(1), Arr(<<u(2)>>)>>), Arr(<<Map(<<>>)>>),
         Map(<<>>), Map(<<<<k(1), u(2)>>>>), Map(<<<<k(2), u(1)>>>>),
         Map(<<<<minus(1), u(2)>>>>), Map(<<<<minus(2), u(2)>>>>),
         Map(<<<<k(1), u(2)>>, <<k(2), u(1)>>>>), Map(<<<<k(2), u(1)>>, <<k(1), u(2)>>>>),
         Map(<<<<k(1), u(1)>>, <<k(2), u(2)>>>>),
         Map(<<<<k(0), u(0)>>, <<minus(1), u(0)>>>>), Map(<<<<minus(1), u(0)>>, <<k(0), u(0)>>>>),
         Map(<<<<k(1), Arr(<<u(2)>>)>>>>), Map(<<<<k(1), Map(<<>>)>>>>),
         Map(<<<<k(1), Map(<<<<k(2), u(1)>>>>)>>>>),
         Map(<<<<k(1), Map(<<<<k(2), u(1)>>, <<k(1), u(2)>>>>)>>>>),
         Map(<<<<k(1), Map(<<<<k(1), u(2)>>, <<k(2), u(1)>>>>)>>>>)}

----------------------------------------------------------------------------
(* Calls of CborType::serialize, one in progress per thread.               *)

Threads == 1..NumThreads

None == <<"None">>

\* one buffer that every call appends to
shared(t) == 1

\* let mut bytes: Vec<u8> = Vec::new(): the buffer of thread t's call is its own
local(t) == t

Call(t, v) ==
    /\ pc[t] = "idle"
    /\ pc' = [pc EXCEPT ![t] = "called"]
    /\ input' = [input EXCEPT ![t] = v]
    /\ ret' = [ret EXCEPT ![t] = None]
    /\ UNCHANGED <<bytes, prim, verVars>>

Alloc(t) ==
    /\ pc[t] = "called"
    /\ bytes' = [bytes EXCEPT ![local(t)] = NewVec]
    /\ pc' = [pc EXCEPT ![t] = "matching"]
    /\ UNCHANGED <<input, ret, prim, verVars>>

Encode(t) ==
    /\ pc[t] = "matching"
    /\ LET after == dispatch(bytes[local(t)], input[t])
       IN  /\ bytes' = [bytes EXCEPT ![local(t)] = after]
           /\ pc' = [pc EXCEPT ![t] = IF after.panicked THEN "panicked" ELSE "encoded"]
    /\ UNCHANGED <<input, ret, prim, verVars>>

Return(t) ==
    /\ pc[t] = "encoded"
    /\ ret' = [ret EXCEPT ![t] = bytes[local(t)]]
    /\ bytes' = [bytes EXCEPT ![local(t)] = NewVec]
    /\ pc' = [pc EXCEPT ![t] = "done"]
    /\ UNCHANGED <<input, prim, verVars>>

\* the caller is done with the returned Vec and is free to call again
Drop(t) ==
    /\ pc[t] = "done"
    /\ pc' = [pc EXCEPT ![t] = "idle"]
    /\ input' = [input EXCEPT ![t] = None]
    /\ ret' = [ret EXCEPT ![t] = None]
    /\ UNCHANGED <<bytes, prim, verVars>>

----------------------------------------------------------------------------
(* common_encode_unsigned called on its own.                               *)

\* the tags of the contract and the first u8 the assert rejects
PrimTags == 0..8

\* the limbs around the boundaries of the match: each word of PrimValues has
\* one limb of LimbSamples, the limbs above it 0 and the limbs below it all 0
\* or all 65535
LimbSamples == {0, 1, 22, 23, 24, 25, 100, 255, 256, 257, 1000, 16960, 32768, 65535}

PrimValues ==
    UIntSamples \cup
    {U64(l, f, f, f) : l \in LimbSamples, f \in {0, 65535}} \cup
    {U64(0, l, f, f) : l \in LimbSamples, f \in {0, 65535}} \cup
    {U64(0, 0, l, f) : l \in LimbSamples, f \in {0, 65535}} \cup
    {U64(0, 0, 0, l) : l \in LimbSamples}

PrimOutputs == {<<>>, <<131, 1>>}

PrimCall(before, tag, value) ==
    /\ prim = None
    /\ prim' = <<"Called", before, tag, value,
                 common_encode_unsigned([NewVec EXCEPT !.output = before], tag, value)>>
    /\ UNCHANGED <<serVars, verVars>>

PrimReset ==
    /\ prim # None
    /\ prim' = None
    /\ UNCHANGED <<serVars, verVars>>

----------------------------------------------------------------------------
(* verify_signed_digest.  The buffers matter to the code only through      *)
(* their lengths (usize, held as 64-bit words); what NSS answers is any of *)
(* the answers its signatures allow.                                       *)

SI_BUFFER == 0
SEC_OID_PKCS1_RSA_ENCRYPTION == 16
SEC_OID_SHA256 == 191
SEC_OID_ANSIX962_EC_PUBLIC_KEY == 200
SEC_SUCCESS == 0
SEC_FAILURE == -1

NULL == "null"

\* 0, 91, 2^32 - 1, 2^32, 2^32 + 91
LenSamples ==
    {U64(0, 0, 0, 0), U64(0, 0, 0, 91), U64(0, 0, 65535, 65535), U64(0, 1, 0, 0),
     U64(0, 1, 0, 91)}

KeyTypes == {"EC", "RSA"}

\* the SECStatus values VFY_VerifyDigestDirect is taken to answer
StatusSamples == {SEC_SUCCESS, SEC_FAILURE, 1, -2}

VerifyInputs ==
    [spki : LenSamples, digest : LenSamples, signature : LenSamples, kt : KeyTypes]

\* data.len() as u32: the low 32 bits, as two limbs
AsU32(len) == <<len[3], len[4]>>

\* the length cast to u32 with no look at what the cast drops
maybe_new_truncating(len) == <<"Ok", [typ |-> SI_BUFFER, len |-> AsU32(len)]>>

\* SECItem::maybe_new, on a buffer of the given length
maybe_new(len) ==
    IF ~U64Le(len, V4294967295) THEN <<"Err", "InputTooLarge">>
    ELSE <<"Ok", [typ |-> SI_BUFFER, len |-> AsU32(len)]>>

\* return Err(e) or the ? operator: the result is fixed and the scope is left
Leave(result) ==
    /\ vresult' = result
    /\ vpc' = "leaving"

VCall(in) ==
    /\ vpc = "idle"
    /\ vin' = in
    /\ vpc' = "spki_item"
    /\ UNCHANGED <<spki_handle, pubkey, status, guards, ffi, vresult, serVars, prim>>

SpkiItem ==
    /\ vpc = "spki_item"
    /\ IF maybe_new(vin.spki)[1] = "Err"
       THEN Leave(maybe_new(vin.spki)[2])
       ELSE vpc' = "decode" /\ UNCHANGED vresult
    /\ UNCHANGED <<vin, spki_handle, pubkey, status, guards, ffi, serVars, prim>>

DecodeSpki ==
    /\ vpc = "decode"
    /\ \E handle \in {NULL, "spki"} : spki_handle' = handle
    /\ ffi' = Append(ffi, <<"SECKEY_DecodeDERSubjectPublicKeyInfo", maybe_new(vin.spki)[2]>>)
    /\ vpc' = "spki_null"
    /\ UNCHANGED <<vin, pubkey, status, guards, vresult, serVars, prim>>

SpkiNull ==
    /\ vpc = "spki_null"
    /\ IF spki_handle = NULL
       THEN Leave("DecodingSPKIFailed") /\ UNCHANGED guards
       ELSE /\ guards' = Append(guards, "SECKEY_DestroySubjectPublicKeyInfo")
            /\ vpc' = "extract"
            /\ UNCHANGED vresult
    /\ UNCHANGED <<vin, spki_handle, pubkey, status, ffi, serVars, prim>>

ExtractPublicKey ==
    /\ vpc = "extract"
    /\ \E handle \in {NULL, "pubkey"} : pubkey' = handle
    /\ ffi' = Append(ffi, <<"SECKEY_ExtractPublicKey", spki_handle>>)
    /\ vpc' = "pubkey_null"
    /\ UNCHANGED <<vin, spki_handle, status, guards, vresult, serVars, prim>>

\* the early return that leaves without running what was deferred
PubkeyNullNoCleanup ==
    /\ vpc = "pubkey_null"
    /\ IF pubkey = NULL
       THEN Leave("LibraryFailure") /\ guards' = <<>>
       ELSE /\ guards' = Append(guards, "SECKEY_DestroyPublicKey")
            /\ vpc' = "digest_item"
            /\ UNCHANGED vresult
    /\ UNCHANGED <<vin, spki_handle, pubkey, status, ffi, serVars, prim>>

PubkeyNull ==
    /\ vpc = "pubkey_null"
    /\ IF pubkey = NULL
       THEN Leave("LibraryFailure") /\ UNCHANGED guards
       ELSE /\ guards' = Append(guards, "SECKEY_DestroyPublicKey")
            /\ vpc' = "digest_item"
            /\ UNCHANGED vresult
    /\ UNCHANGED <<vin, spki_handle, pubkey, status, ffi, serVars, prim>>

DigestItem ==
    /\ vpc = "digest_item"
    /\ IF maybe_new(vin.digest)[1] = "Err"
       THEN Leave(maybe_new(vin.digest)[2])
       ELSE vpc' = "signature_item" /\ UNCHANGED vresult
    /\ UNCHANGED <<vin, spki_handle, pubkey, status, guards, ffi, serVars, prim>>

SignatureItem ==
    /\ vpc = "signature_item"
    /\ IF maybe_new(vin.signature)[1] = "Err"
       THEN Leave(maybe_new(vin.signature)[2])
       ELSE vpc' = "verify" /\ UNCHANGED vresult
    /\ UNCHANGED <<vin, spki_handle, pubkey, status, guards, ffi, serVars, prim>>

enc_alg(kt) ==
    IF kt = "EC" THEN SEC_OID_ANSIX962_EC_PUBLIC_KEY ELSE SEC_OID_PKCS1_RSA_ENCRYPTION

VerifyDigest ==
    /\ vpc = "verify"
    /\ \E answer \in StatusSamples : status' = answer
    /\ ffi' = Append(ffi, <<"VFY_VerifyDigestDirect", maybe_new(vin.digest)[2], pubkey,
                            maybe_new(vin.signature)[2], enc_alg(vin.kt), SEC_OID_SHA256>>)
    /\ vpc' = "match"
    /\ UNCHANGED <<vin, spki_handle, pubkey, guards, vresult, serVars, prim>>

\* any status that is not negative taken for success
verdict_sign(result) ==
    IF result >= SEC_SUCCESS THEN "Ok"
    ELSE IF result = SEC_FAILURE THEN "SignatureVerificationFailed"
    ELSE "LibraryFailure"

\* match result { ... }
verdict(result) ==
    IF result = SEC_SUCCESS THEN "Ok"
    ELSE IF result = SEC_FAILURE THEN "SignatureVerificationFailed"
    ELSE "LibraryFailure"

MatchResult ==
    /\ vpc = "match"
    /\ Leave(verdict(status))
    /\ UNCHANGED <<vin, spki_handle, pubkey, status, guards, ffi, serVars, prim>>

\* the handle a deferred call was written to destroy
captured(guard) ==
    IF guard = "SECKEY_DestroySubjectPublicKeyInfo" THEN spki_handle ELSE pubkey

\* the pending guards run in the order they were declared
next_guard_first(pending) == 1

\* which of the pending defer! guards runs next as the scope is left: the one
\* declared last
next_guard(pending) == Len(pending)

\* leaving the scope runs one pending guard
RunGuard ==
    /\ vpc = "leaving"
    /\ guards # <<>>
    /\ LET g == next_guard(guards)
       IN  /\ ffi' = Append(ffi, <<guards[g], captured(guards[g])>>)
           /\ guards' = Without(guards, g)
    /\ UNCHANGED <<vpc, vin, spki_handle, pubkey, status, vresult, serVars, prim>>

Returned ==
    /\ vpc = "leaving"
    /\ guards = <<>>
    /\ vpc' = "returned"
    /\ UNCHANGED <<vin, spki_handle, pubkey, status, guards, ffi, vresult, serVars, prim>>

NextVerify ==
    \/ \E in \in VerifyInputs : VCall(in)
    \/ SpkiItem
    \/ DecodeSpki
    \/ SpkiNull
    \/ ExtractPublicKey
    \/ PubkeyNull
    \/ DigestItem
    \/ SignatureItem
    \/ VerifyDigest
    \/ MatchResult
    \/ RunGuard
    \/ Returned

----------------------------------------------------------------------------

InitSerialize ==
    /\ pc = [t \in Threads |-> "idle"]
    /\ input = [t \in Threads |-> None]
    /\ bytes = [t \in Threads |-> NewVec]
    /\ ret = [t \in Threads |-> None]
    /\ prim = None

InitVerify ==
    /\ vpc = "idle"
    /\ vin = None
    /\ spki_handle = "unset"
    /\ pubkey = "unset"
    /\ status = None
    /\ guards = <<>>
    /\ ffi = <<>>
    /\ vresult = "unset"

Init == InitSerialize /\ InitVerify

\* one thread serializing the values of Trees, one call after another
Next ==
    \/ \E v \in Trees : Call(1, v)
    \/ Alloc(1)
    \/ Encode(1)
    \/ Return(1)
    \/ Drop(1)

Spec == Init /\ [][Next]_vars

\* every thread serializing, the calls interleaved
NextConcurrent ==
    \E t \in Threads :
        \/ \E v \in ConcurrentTrees : Call(t, v)
        \/ Alloc(t)
        \/ Encode(t)
        \/ Return(t)
        \/ Drop(t)

SpecConcurrent == Init /\ [][NextConcurrent]_vars

\* two callers serializing the values of PairTrees, the calls interleaved
NextPair ==
    \E t \in {1, 2} :
        \/ \E v \in PairTrees : Call(t, v)
        \/ Alloc(t)
        \/ Encode(t)
        \/ Return(t)
        \/ Drop(t)

SpecPair == Init /\ [][NextPair]_vars

NextPrimitive ==
    \/ \E before \in PrimOutputs, tag \in PrimTags, value \in PrimValues :
          PrimCall(before, tag, value)
    \/ PrimReset

SpecPrimitive == Init /\ [][NextPrimitive]_vars

SpecVerify == Init /\ [][NextVerify]_vars

----------------------------------------------------------------------------
(* What the properties are stated with.                                    *)

\* the eight bytes of a 64-bit word, most significant first
Bytes8(v) ==
    <<v[1] \div 256, v[1] % 256, v[2] \div 256, v[2] % 256,
      v[3] \div 256, v[3] % 256, v[4] \div 256, v[4] % 256>>

\* the last k of the eight
LastBytes(v, k) == SubSeq(Bytes8(v), 9 - k, 8)

\* the number of bytes that follow the first one, by the table of magnitudes
TrailingBytes(v) ==
    IF v[1] = 0 /\ v[2] = 0 /\ v[3] = 0 /\ v[4] \in 0..23 THEN 0
    ELSE IF v[1] = 0 /\ v[2] = 0 /\ v[3] = 0 /\ v[4] \in 24..255 THEN 1
    ELSE IF v[1] = 0 /\ v[2] = 0 /\ v[3] = 0 THEN 2
    ELSE IF v[1] = 0 /\ v[2] = 0 THEN 4
    ELSE 8

\* the low 5 bits of the first byte
LowBits(v) ==
    CASE TrailingBytes(v) = 0 -> v[4]
      [] TrailingBytes(v) = 1 -> 24
      [] TrailingBytes(v) = 2 -> 25
      [] TrailingBytes(v) = 4 -> 26
      [] TrailingBytes(v) = 8 -> 27

\* the header of tag t carrying the magnitude v
Header(t, v) == <<t * 32 + LowBits(v)>> \o LastBytes(v, TrailingBytes(v))

\* the header of tag t carrying a count
CountHeader(t, n) == Header(t, <<0, 0, n \div 65536, n % 65536>>)

RECURSIVE Concat(_)
Concat(seqs) == IF seqs = <<>> THEN <<>> ELSE Head(seqs) \o Concat(Tail(seqs))

IsVariant(v, name) == v # None /\ v[1] = name

Negative(n) == n[1] >= 32768

\* -1 - n, bit by bit
Complement(n) == <<65535 - n[1], 65535 - n[2], 65535 - n[3], 65535 - n[4]>>

----------------------------------------------------------------------------
(* C1: for every tag t in 0..7 and every 64-bit v, common_encode_unsigned  *)
(* leaves what the vector held in place and appends exactly 1 + k bytes,   *)
(* k = 0/1/2/4/8 by the range v lies in; the first of them has t in its    *)
(* top 3 bits and v (v <= 23) or the code 24/25/26/27 in its low 5 bits;   *)
(* the k others are v, big-endian.                                         *)
C1_MinimalEncoding ==
    (prim # None /\ prim[3] \in 0..7) =>
        LET before == prim[2]
            t == prim[3]
            v == prim[4]
            out == prim[5].output
            k == TrailingBytes(v)
            n == Len(before)
        IN  /\ ~prim[5].panicked
            /\ Len(out) = n + 1 + k
            /\ SubSeq(out, 1, n) = before
            /\ out[n + 1] \div 32 = t
            /\ out[n + 1] % 32 = (IF k = 0 THEN v[4] ELSE LowBits(v))
            /\ SubSeq(out, n + 2, n + 1 + k) = LastBytes(v, k)
            /\ \A j \in {0, 1, 2, 4, 8} :
                  (j < k) => \E i \in 1..(8 - j) : Bytes8(v)[i] # 0

\* tag 7 and 24, the least value that no longer fits the first byte, appended
\* to a vector that held two bytes
C1_Witness ==
    /\ prim # None
    /\ prim[2] = <<131, 1>>
    /\ prim[3] = 7
    /\ prim[4] = U64(0, 0, 0, 24)
    /\ prim[5].output = <<131, 1, 248, 24>>

----------------------------------------------------------------------------
(* C2: for every strictly negative i64 n, the minimum included,            *)
(* serialize(NInt(n)) is serialize(UInt(-1 - n)) with the top 3 bits of    *)
(* the first byte 1 instead of 0; -1 - n is computed without overflow; no  *)
(* negative n makes the call panic.                                        *)
C2_NegativeLaw ==
    \A t \in Threads :
        (IsVariant(input[t], "NInt") /\ Negative(input[t][2])) =>
            /\ pc[t] # "panicked"
            /\ pc[t] = "done" =>
                  LET u == serialize(UInt(Complement(input[t][2]))).output
                  IN  /\ u[1] \div 32 = 0
                      /\ ret[t].output = <<32 + u[1]>> \o Tail(u)
                      /\ ~ret[t].overflow

\* NInt(-2^63) has been serialized to 0x3b 0x7f 0xff ... 0xff
C2_Witness ==
    /\ pc[1] = "done"
    /\ input[1] = NInt(U64(32768, 0, 0, 0))
    /\ ret[1].output = <<59, 127, 255, 255, 255, 255, 255, 255, 255>>

----------------------------------------------------------------------------
(* C3: serialize(Map(m)) is the tag-5 header carrying the number of pairs, *)
(* then the pairs in strictly ascending signed order of their keys,        *)
(* whatever the order of insertion; a key k < 0 is written as              *)
(* serialize(NInt(k)), a key k >= 0 as serialize(UInt(k)), and each key is *)
(* followed by the encoding of its value.                                  *)

\* a < b as signed numbers: a negative number is below every other, and two
\* numbers of one sign compare as their bits do
SignedLess(a, b) ==
    \/ Negative(a) /\ ~Negative(b)
    \/ /\ Negative(a) = Negative(b)
       /\ \E i \in 1..4 : a[i] < b[i] /\ \A j \in 1..(i - 1) : a[j] = b[j]

\* the number of entries of m whose key is below k
Rank(m, k) == Cardinality({j \in 1..Len(m) : SignedLess(m[j][1], k)})

\* the entries of m, the i-th being the one with i - 1 keys below its own
Ascending(m) ==
    [i \in 1..Len(m) |-> m[CHOOSE j \in 1..Len(m) : Rank(m, m[j][1]) = i - 1]]

KeyEncoding(k) ==
    IF Negative(k) THEN serialize(NInt(k)).output ELSE serialize(UInt(k)).output

C3_MapOrdering ==
    \A t \in Threads :
        (pc[t] = "done" /\ IsVariant(input[t], "Map")) =>
            LET m == input[t][2]
                sorted == Ascending(m)
            IN  /\ \A i \in 1..(Len(m) - 1) : SignedLess(sorted[i][1], sorted[i + 1][1])
                /\ ret[t].output =
                       CountHeader(5, Len(m)) \o
                       Concat([i \in 1..Len(m) |->
                                  KeyEncoding(sorted[i][1]) \o
                                  serialize(sorted[i][2]).output])

\* {24: 10, -1: -1}, inserted in that order, is written with -1 first
C3_Witness ==
    /\ pc[1] = "done"
    /\ input[1] = Map(<<<<U64(0, 0, 0, 24), UInt(U64(0, 0, 0, 10))>>,
                        <<U64(65535, 65535, 65535, 65535),
                          NInt(U64(65535, 65535, 65535, 65535))>>>>)
    /\ ret[1].output = <<162, 32, 32, 24, 24, 10>>

----------------------------------------------------------------------------
(* C4: serialize(Arr([e1..en])), n = 0 and nested arrays included, is the  *)
(* tag-4 header carrying n, then serialize(e1) ++ ... ++ serialize(en) in  *)
(* the order given: nothing reordered, dropped or deduplicated.            *)
C4_ArrayLaw ==
    \A t \in Threads :
        (pc[t] = "done" /\ IsVariant(input[t], "Arr")) =>
            LET a == input[t][2]
            IN  ret[t].output =
                    CountHeader(4, Len(a)) \o
                    Concat([i \in 1..Len(a) |-> serialize(a[i]).output])

\* [[2, 3], []], two different elements of which the later is the shorter
C4_Witness ==
    /\ pc[1] = "done"
    /\ input[1] = Arr(<<Arr(<<UInt(U64(0, 0, 0, 2)), UInt(U64(0, 0, 0, 3))>>), Arr(<<>>)>>)
    /\ ret[1].output = <<130, 130, 2, 3, 128>>

----------------------------------------------------------------------------
(* C5: serialize(BStr(b)) is the tag-2 header carrying |b|, then b;        *)
(* serialize(TStr(s)) is the tag-3 header carrying the number of UTF-8     *)
(* bytes of s, not of its chars, then those bytes.                         *)

\* the number of bytes UTF-8 takes for a char
Utf8Width(c) ==
    IF c <= 127 THEN 1 ELSE IF c <= 2047 THEN 2 ELSE IF c <= 65535 THEN 3 ELSE 4

\* the number of bytes UTF-8 takes for a string: so many chars of each width
Utf8Count(s) ==
    LET n(w) == Cardinality({i \in 1..Len(s) : Utf8Width(s[i]) = w})
    IN  n(1) + 2 * n(2) + 3 * n(3) + 4 * n(4)

C5_StringLaw ==
    \A t \in Threads :
        /\ (pc[t] = "done" /\ IsVariant(input[t], "BStr")) =>
              ret[t].output = CountHeader(2, Len(input[t][2])) \o input[t][2]
        /\ (pc[t] = "done" /\ IsVariant(input[t], "TStr")) =>
              LET n == Utf8Count(input[t][2])
                  h == CountHeader(3, n)
                  out == ret[t].output
              IN  /\ Len(out) = Len(h) + n
                  /\ SubSeq(out, 1, Len(h)) = h
                  /\ SubSeq(out, Len(h) + 1, Len(out)) = as_bytes(input[t][2])

\* twelve chars of three bytes each: the header carries 36, in a byte of its own
C5_Witness ==
    /\ pc[1] = "done"
    /\ input[1] = TStr(Repeat(27700, 12))
    /\ Len(ret[1].output) = 38
    /\ SubSeq(ret[1].output, 1, 5) = <<120, 36, 230, 176, 180>>

----------------------------------------------------------------------------
(* C6: a value that holds NInt(n), n >= 0, at the top, as an element of an *)
(* array or as a value of a map, at any depth, is never encoded: the call  *)
(* neither finishes encoding nor returns, it panics.                       *)

RECURSIVE HasNonNegative(_)
HasNonNegative(v) ==
    CASE v[1] = "NInt" -> ~Negative(v[2])
      [] v[1] = "Arr"  -> \E i \in 1..Len(v[2]) : HasNonNegative(v[2][i])
      [] v[1] = "Map"  -> \E i \in 1..Len(v[2]) : HasNonNegative(v[2][i][2])
      [] OTHER -> FALSE

C6_FailFast ==
    \A t \in Threads :
        (input[t] # None /\ HasNonNegative(input[t])) =>
            pc[t] \in {"called", "matching", "panicked"}

\* a map whose value is an array that holds NInt(1): the call has panicked
C6_Witness ==
    /\ pc[1] = "panicked"
    /\ input[1] = Map(<<<<U64(0, 0, 0, 0), Arr(<<NInt(U64(0, 0, 0, 1))>>)>>>>)

----------------------------------------------------------------------------
(* C7: a value in which every NInt is strictly negative is serialized      *)
(* without a panic: every tag given to common_encode_unsigned is in 0..5,  *)
(* and whatever reaches encode_negative, the map keys included, is         *)
(* strictly negative.                                                      *)

Passed(r) ==
    /\ ~r.panicked
    /\ r.tags \subseteq 0..5
    /\ \A n \in r.negs : Negative(n)

C7_NoPanic ==
    \A t \in Threads :
        (input[t] # None /\ ~HasNonNegative(input[t])) =>
            /\ pc[t] # "panicked"
            /\ pc[t] = "encoded" => Passed(bytes[local(t)])
            /\ pc[t] = "done" => Passed(ret[t])

\* an array holding {20: 10, -10: h'01'}: every tag but 3 was used, and -10 was
\* the one value given to encode_negative
C7_Witness ==
    /\ pc[1] = "done"
    /\ input[1] = Arr(<<Map(<<<<U64(0, 0, 0, 20), UInt(U64(0, 0, 0, 10))>>,
                              <<U64(65535, 65535, 65535, 65526), BStr(<<1>>)>>>>)>>)
    /\ ret[1].tags = {0, 1, 2, 4, 5}
    /\ ret[1].negs = {U64(65535, 65535, 65535, 65526)}
    /\ ret[1].output = <<129, 162, 41, 65, 1, 20, 10>>

----------------------------------------------------------------------------
(* C8: two calls on the same value return the same bytes, whatever calls   *)
(* run before, between or interleaved with them: what a call returns is    *)
(* decided by its own value, and so is whether it panics.                  *)
C8_Deterministic ==
    /\ \A t1, t2 \in Threads :
          (pc[t1] = "done" /\ pc[t2] = "done" /\ input[t1] = input[t2]) =>
              ret[t1].output = ret[t2].output
    /\ \A t \in Threads :
          /\ pc[t] = "done" => ret[t].output = serialize(input[t]).output
          /\ pc[t] = "panicked" => serialize(input[t]).panicked
          /\ pc[t] = "encoded" => ~serialize(input[t]).panicked

\* two threads hold the result of serializing the same map at the same time
C8_Witness ==
    /\ pc[1] = "done"
    /\ pc[2] = "done"
    /\ input[1] = Map(<<<<U64(0, 0, 0, 20), UInt(U64(0, 0, 0, 10))>>,
                        <<U64(65535, 65535, 65535, 65526), BStr(<<1>>)>>>>)
    /\ input[2] = input[1]
    /\ ret[1].output = <<162, 41, 65, 1, 20, 10>>
    /\ ret[2].output = ret[1].output

----------------------------------------------------------------------------
(* C9: once the SPKI has decoded, the key has been extracted and the three *)
(* lengths fit 32 bits, verify_signed_digest calls the provider's check    *)
(* and returns Ok exactly when that answers 0, SignatureVerificationFailed *)
(* exactly when it answers -1, and LibraryFailure for any other answer.    *)

Fits32(len) == len[1] = 0 /\ len[2] = 0

Called(name) == \E i \in 1..Len(ffi) : ffi[i][1] = name

C9_Verdict ==
    (/\ vpc = "returned"
     /\ spki_handle = "spki"
     /\ pubkey = "pubkey"
     /\ Fits32(vin.spki) /\ Fits32(vin.digest) /\ Fits32(vin.signature)) =>
        /\ Called("VFY_VerifyDigestDirect")
        /\ (vresult = "Ok") <=> (status = 0)
        /\ (vresult = "SignatureVerificationFailed") <=> (status = -1)
        /\ (status \notin {0, -1}) <=> (vresult = "LibraryFailure")
        /\ vresult \in {"Ok", "SignatureVerificationFailed", "LibraryFailure"}

\* the provider rejected the signature and the call returned that
C9_Witness ==
    /\ vpc = "returned"
    /\ Called("VFY_VerifyDigestDirect")
    /\ status = -1
    /\ vresult = "SignatureVerificationFailed"

----------------------------------------------------------------------------
(* C10: when verify_signed_digest has returned, by any path, each handle   *)
(* it obtained non-null has been destroyed exactly once, and at no time    *)
(* has a destroy function been given a null handle, or a handle twice.     *)

Destroyed(name, handle) ==
    Cardinality({i \in 1..Len(ffi) : ffi[i][1] = name /\ ffi[i][2] = handle})

DestroyFunctions == {"SECKEY_DestroySubjectPublicKeyInfo", "SECKEY_DestroyPublicKey"}

C10_Release ==
    /\ \A i \in 1..Len(ffi) :
          ffi[i][1] \in DestroyFunctions => ffi[i][2] \in {"spki", "pubkey"}
    /\ Destroyed("SECKEY_DestroySubjectPublicKeyInfo", "spki") <= 1
    /\ Destroyed("SECKEY_DestroyPublicKey", "pubkey") <= 1
    /\ Destroyed("SECKEY_DestroySubjectPublicKeyInfo", "pubkey") = 0
    /\ Destroyed("SECKEY_DestroyPublicKey", "spki") = 0
    /\ vpc = "returned" =>
          /\ Destroyed("SECKEY_DestroySubjectPublicKeyInfo", "spki")
                 = (IF spki_handle = "spki" THEN 1 ELSE 0)
          /\ Destroyed("SECKEY_DestroyPublicKey", "pubkey")
                 = (IF pubkey = "pubkey" THEN 1 ELSE 0)

\* the early return for a signature that is too long, taken with both handles
\* held: both have been destroyed
C10_Witness ==
    /\ vpc = "returned"
    /\ vresult = "InputTooLarge"
    /\ spki_handle = "spki"
    /\ pubkey = "pubkey"
    /\ ~Fits32(vin.signature)
    /\ Destroyed("SECKEY_DestroySubjectPublicKeyInfo", "spki") = 1
    /\ Destroyed("SECKEY_DestroyPublicKey", "pubkey") = 1

----------------------------------------------------------------------------
(* C11: a buffer longer than 2^32 - 1 bytes makes verify_signed_digest     *)
(* return InputTooLarge, and no such buffer reaches the provider with its  *)
(* length cut to 32 bits.                                                  *)

\* the SECItem handed over is the whole of a buffer of this length
Whole(item, len) == Fits32(len) /\ item.len = <<len[3], len[4]>>

\* every SECItem the provider was given so far is the whole of its buffer
NothingTruncated ==
    \A i \in 1..Len(ffi) :
        /\ ffi[i][1] = "SECKEY_DecodeDERSubjectPublicKeyInfo" =>
              Whole(ffi[i][2], vin.spki)
        /\ ffi[i][1] = "VFY_VerifyDigestDirect" =>
              Whole(ffi[i][2], vin.digest) /\ Whole(ffi[i][4], vin.signature)

\* as first stated: any of the three lengths out of range gives InputTooLarge
C11_AnyTooLarge ==
    (/\ vpc = "returned"
     /\ ~(Fits32(vin.spki) /\ Fits32(vin.digest) /\ Fits32(vin.signature))) =>
        vresult = "InputTooLarge"

\* as it holds: an SPKI out of range gives InputTooLarge before the provider
\* is called at all; a digest or a signature out of range is looked at only
\* once the SPKI has decoded and the key has been extracted, so the call
\* returns DecodingSPKIFailed when the decoding gave null, LibraryFailure when
\* the extraction gave null, and InputTooLarge otherwise, and the provider's
\* check is never called; no SECItem is ever handed over with a length other
\* than its buffer's.
C11_TooLarge ==
    /\ NothingTruncated
    /\ (vpc = "returned" /\ ~Fits32(vin.spki)) =>
          vresult = "InputTooLarge" /\ ffi = <<>>
    /\ (/\ vpc = "returned"
        /\ Fits32(vin.spki)
        /\ ~(Fits32(vin.digest) /\ Fits32(vin.signature))) =>
          /\ ~Called("VFY_VerifyDigestDirect")
          /\ vresult = (IF spki_handle = NULL THEN "DecodingSPKIFailed"
                        ELSE IF pubkey = NULL THEN "LibraryFailure"
                        ELSE "InputTooLarge")

\* a digest of 2^32 + 91 bytes, with the SPKI decoded and the key extracted:
\* InputTooLarge, and the provider's check was not called
C11_Witness ==
    /\ vpc = "returned"
    /\ vin.spki = U64(0, 0, 0, 91)
    /\ vin.digest = U64(0, 1, 0, 91)
    /\ spki_handle = "spki"
    /\ pubkey = "pubkey"
    /\ vresult = "InputTooLarge"
    /\ ~Called("VFY_VerifyDigestDirect")

----------------------------------------------------------------------------
(* C12: the order in which the keys of a map are written, ascending as     *)
(* signed numbers, against the order of the keys' encodings taken byte by  *)
(* byte.                                                                   *)

\* a comes before b, byte by byte; a proper prefix comes first
LexLess(a, b) ==
    \/ Len(a) < Len(b) /\ SubSeq(b, 1, Len(a)) = a
    \/ \E i \in 1..Len(a) :
          /\ i <= Len(b)
          /\ a[i] < b[i]
          /\ SubSeq(a, 1, i - 1) = SubSeq(b, 1, i - 1)

\* the entries of m in the byte-wise order of their encoded keys
Bytewise(m) ==
    LET below(k) == Cardinality({j \in 1..Len(m) :
                        LexLess(KeyEncoding(m[j][1]), KeyEncoding(k))})
    IN  [i \in 1..Len(m) |-> m[CHOOSE j \in 1..Len(m) : below(m[j][1]) = i - 1]]

\* the map written with its entries in the given order
Written(entries) ==
    CountHeader(5, Len(entries)) \o
    Concat([i \in 1..Len(entries) |->
               KeyEncoding(entries[i][1]) \o serialize(entries[i][2]).output])

SameKeyLength(m) ==
    \A i, j \in 1..Len(m) : Len(KeyEncoding(m[i][1])) = Len(KeyEncoding(m[j][1]))

NoNegativeKey(m) == \A i \in 1..Len(m) : ~Negative(m[i][1])

\* as first stated: keys that all encode to the same number of bytes are
\* written in the byte-wise order of their encodings
C12_SameLengthBytewise ==
    \A t \in Threads :
        (pc[t] = "done" /\ IsVariant(input[t], "Map") /\ SameKeyLength(input[t][2])) =>
            ret[t].output = Written(Bytewise(input[t][2]))

\* as it holds: the order written differs from the byte-wise order of the
\* encoded keys only for maps that mix keys of different encoded lengths or
\* hold a negative key; keys that are all non-negative and all encode to the
\* same number of bytes are written in the byte-wise order of their encodings.
\* More holds, and is stated with it: keys that are all non-negative are
\* written in byte-wise order whatever their lengths, and a map of two or more
\* keys that holds a negative key never is.
C12_BytewiseOrder ==
    \A t \in Threads :
        (pc[t] = "done" /\ IsVariant(input[t], "Map")) =>
            LET m == input[t][2]
            IN  /\ (SameKeyLength(m) /\ NoNegativeKey(m)) =>
                      ret[t].output = Written(Bytewise(m))
                /\ NoNegativeKey(m) => ret[t].output = Written(Bytewise(m))
                /\ (Len(m) >= 2 /\ ~NoNegativeKey(m)) =>
                      ret[t].output # Written(Bytewise(m))

\* {20: 10, 10: 20, 15: 15}: one byte per key, none negative, not inserted in
\* order, written as 10, 15, 20
C12_Witness ==
    /\ pc[1] = "done"
    /\ input[1] = Map(<<<<U64(0, 0, 0, 20), UInt(U64(0, 0, 0, 10))>>,
                        <<U64(0, 0, 0, 10), UInt(U64(0, 0, 0, 20))>>,
                        <<U64(0, 0, 0, 15), UInt(U64(0, 0, 0, 15))>>>>)
    /\ SameKeyLength(input[1][2])
    /\ ret[1].output = <<163, 10, 20, 15, 15, 20, 10>>
    /\ ret[1].output = Written(Bytewise(input[1][2]))

----------------------------------------------------------------------------
(* C13: within one call of verify_signed_digest the provider is asked to   *)
(* decode the SPKI, to extract the public key and to verify the digest, in *)
(* that order and each at most once; the key is extracted only from a      *)
(* handle that decoded non-null, and a null one returns DecodingSPKIFailed;*)
(* the digest is verified only with a key that was extracted non-null, and *)
(* a null one returns LibraryFailure; every use of a handle comes before   *)
(* its destruction, and the public key is destroyed before the SPKI handle *)
(* it was extracted from.                                                  *)

Calls(name) == {i \in 1..Len(ffi) : ffi[i][1] = name}

Before(first, second) == \A i \in Calls(first), j \in Calls(second) : i < j

C13_CallOrder ==
    /\ Cardinality(Calls("SECKEY_DecodeDERSubjectPublicKeyInfo")) <= 1
    /\ Cardinality(Calls("SECKEY_ExtractPublicKey")) <= 1
    /\ Cardinality(Calls("VFY_VerifyDigestDirect")) <= 1
    /\ Before("SECKEY_DecodeDERSubjectPublicKeyInfo", "SECKEY_ExtractPublicKey")
    /\ Before("SECKEY_ExtractPublicKey", "VFY_VerifyDigestDirect")
    /\ Called("SECKEY_ExtractPublicKey") =>
          /\ Called("SECKEY_DecodeDERSubjectPublicKeyInfo")
          /\ spki_handle = "spki"
          /\ \A i \in Calls("SECKEY_ExtractPublicKey") : ffi[i][2] = "spki"
    /\ Called("VFY_VerifyDigestDirect") =>
          /\ Called("SECKEY_ExtractPublicKey")
          /\ pubkey = "pubkey"
          /\ \A i \in Calls("VFY_VerifyDigestDirect") : ffi[i][3] = "pubkey"
    /\ (vpc = "returned" /\ Called("SECKEY_DecodeDERSubjectPublicKeyInfo")
            /\ spki_handle = NULL) =>
          /\ vresult = "DecodingSPKIFailed"
          /\ ~Called("SECKEY_ExtractPublicKey")
          /\ ~Called("VFY_VerifyDigestDirect")
    /\ (vpc = "returned" /\ Called("SECKEY_ExtractPublicKey") /\ pubkey = NULL) =>
          /\ vresult = "LibraryFailure"
          /\ ~Called("VFY_VerifyDigestDirect")
    /\ Before("SECKEY_DecodeDERSubjectPublicKeyInfo", "SECKEY_DestroySubjectPublicKeyInfo")
    /\ Before("SECKEY_ExtractPublicKey", "SECKEY_DestroySubjectPublicKeyInfo")
    /\ Before("SECKEY_ExtractPublicKey", "SECKEY_DestroyPublicKey")
    /\ Before("VFY_VerifyDigestDirect", "SECKEY_DestroyPublicKey")
    /\ Before("VFY_VerifyDigestDirect", "SECKEY_DestroySubjectPublicKeyInfo")
    /\ Before("SECKEY_DestroyPublicKey", "SECKEY_DestroySubjectPublicKeyInfo")

\* a call that went all the way: decode, extract, verify, then the key and
\* the SPKI handle destroyed, in that order
C13_Witness ==
    /\ vpc = "returned"
    /\ Len(ffi) = 5
    /\ ffi[1][1] = "SECKEY_DecodeDERSubjectPublicKeyInfo"
    /\ ffi[2] = <<"SECKEY_ExtractPublicKey", "spki">>
    /\ ffi[3][1] = "VFY_VerifyDigestDirect"
    /\ ffi[4] = <<"SECKEY_DestroyPublicKey", "pubkey">>
    /\ ffi[5] = <<"SECKEY_DestroySubjectPublicKeyInfo", "spki">>

----------------------------------------------------------------------------
(* C14: two values that differ, in variant, in number, in the bytes of a   *)
(* string, in the elements of an array or their order, or in the keys and  *)
(* values of a map, are never serialized to the same bytes, and the bytes  *)
(* of one are never the beginning of the bytes of the other. A map is what *)
(* it holds: the order of insertion makes no difference between two maps.  *)

\* the value with the entries of every map in it listed in ascending order
\* of the keys
RECURSIVE Canonical(_)
Canonical(v) ==
    CASE v[1] = "Arr" -> Arr([i \in 1..Len(v[2]) |-> Canonical(v[2][i])])
      [] v[1] = "Map" ->
           Map(Ascending([i \in 1..Len(v[2]) |-> <<v[2][i][1], Canonical(v[2][i][2])>>]))
      [] OTHER -> v

ProperPrefix(a, b) == Len(a) < Len(b) /\ SubSeq(b, 1, Len(a)) = a

C14_Injective ==
    \A t1, t2 \in Threads :
        (/\ pc[t1] = "done"
         /\ pc[t2] = "done"
         /\ Canonical(input[t1]) # Canonical(input[t2])) =>
            /\ ret[t1].output # ret[t2].output
            /\ ~ProperPrefix(ret[t1].output, ret[t2].output)

\* [1] and [1, 2]: the elements of the one begin the elements of the other,
\* and the counts in front tell the two apart from the first byte
C14_Witness ==
    /\ pc[1] = "done"
    /\ pc[2] = "done"
    /\ input[1] = Arr(<<UInt(U64(0, 0, 0, 1))>>)
    /\ input[2] = Arr(<<UInt(U64(0, 0, 0, 1)), UInt(U64(0, 0, 0, 2))>>)
    /\ ret[1].output = <<129, 1>>
    /\ ret[2].output = <<130, 1, 2>>
    /\ ~ProperPrefix(ret[1].output, ret[2].output)

====
